---- MODULE Spec2Model ----
(***************************************************************************)
(* Model of the monthly distance aggregator (logic/monthly_distance.py)    *)
(* and of the /monthly-distance/ upload endpoint (main.py).                *)
(*                                                                         *)
(* Representation.                                                         *)
(*   - A spreadsheet cell is a record [t, v]: t = "num" (v an integer),    *)
(*     t = "str" (v a sequence of character codes), t = "nan" (missing).   *)
(*   - Text is a sequence of character codes, so that lower(), str() and   *)
(*     the code-point comparison of Python strings are computed.           *)
(*   - Coordinates are whole degrees; distances are whole metres, so the   *)
(*     2-decimal rounding of kilometres is the rounding to 10 metres.      *)
(***************************************************************************)
EXTENDS Integers, Sequences, FiniteSets, TLC

VARIABLES file, pc, df, groups, coords, total_km, results, detailed, ret,
          disk, req

vars == <<file, pc, df, groups, coords, total_km, results, detailed, ret,
          disk, req>>

aggVars == <<file, pc, df, groups, coords, total_km, results, detailed, ret>>
httpVars == <<disk, req>>

(***************************************************************************)
(* Bounds of the model.                                                    *)
(***************************************************************************)
MaxRows == 3

MaxCleanRows == 4

(***************************************************************************)
(* Cells and text.                                                         *)
(***************************************************************************)
Num(n) == [t |-> "num", v |-> n]

Str(s) == [t |-> "str", v |-> s]

NaN == [t |-> "nan", v |-> 0]

IsNa(c) == c.t = "nan"

S_Bob == <<66, 111, 98>>

S_alice == <<97, 108, 105, 99, 101>>

S_Mon == <<77, 111, 110>>

S_Tue == <<84, 117, 101>>

S_abc == <<97, 98, 99>>

S_x == <<120>>

S_2 == <<50>>

\* Python's comparison of two strings: by code point, a proper prefix first.
RECURSIVE SeqLess(_, _)
SeqLess(a, b) ==
    IF b = <<>> THEN FALSE
    ELSE IF a = <<>> THEN TRUE
    ELSE IF Head(a) # Head(b) THEN Head(a) < Head(b)
    ELSE SeqLess(Tail(a), Tail(b))

\* str.lower() on ASCII text.
Lower(s) == [i \in 1..Len(s) |-> IF s[i] >= 65 /\ s[i] <= 90 THEN s[i] + 32 ELSE s[i]]

\* The decimal digits of a natural number, as text.
RECURSIVE Digits(_)
Digits(n) == IF n < 10 THEN <<48 + n>> ELSE Digits(n \div 10) \o <<48 + (n % 10)>>

\* str(x) of a key value: text is itself, an integer is its decimal digits.
PyStr(c) ==
    CASE c.t = "str" -> c.v
      [] c.t = "num" -> IF c.v < 0 THEN <<45>> \o Digits(-c.v) ELSE Digits(c.v)
      [] c.t = "nan" -> <<110, 97, 110>>

IsDigits(s) == s # <<>> /\ \A i \in 1..Len(s) : s[i] >= 48 /\ s[i] <= 57

\* The number a string of decimal digits denotes.
RECURSIVE ParseDigits(_)
ParseDigits(s) ==
    IF s = <<>> THEN 0 ELSE 10 * ParseDigits(SubSeq(s, 1, Len(s) - 1)) + (s[Len(s)] - 48)

\* pd.to_numeric(errors="coerce") on one cell: what does not parse becomes missing.
ToNumeric(c) ==
    CASE c.t = "num" -> c
      [] c.t = "nan" -> NaN
      [] c.t = "str" -> IF IsDigits(c.v) THEN Num(ParseDigits(c.v)) ELSE NaN

\* Whether float(x) succeeds on a cell (astype(float) raises ValueError if not).
CanFloat(c) == c.t = "num" \/ c.t = "nan" \/ (c.t = "str" /\ IsDigits(c.v))

ToFloat(c) == IF c.t = "str" THEN ParseDigits(c.v) ELSE c.v

\* int(week) of a numeric group key.
PyInt(c) == IF c.t = "str" THEN ParseDigits(c.v) ELSE c.v

(***************************************************************************)
(* The uploaded spreadsheet.                                               *)
(***************************************************************************)
required_cols ==
    <<"SO NAME", "SO_ERP_ID", "Latitude", "Longitude", "WEEK", "DAY", "VISIT_ORDER">>

AllCols == {required_cols[i] : i \in 1..Len(required_cols)}

Row(name, erp, lat, lon, week, day, vo) ==
    [name |-> name, erp |-> erp, lat |-> lat, lon |-> lon,
     week |-> week, day |-> day, vo |-> vo]

\* Rows of the model's spreadsheets.  Key columns keep one type per column
\* (names and days are text, ERP ids and weeks are numbers or missing).
CleanRows ==
    { Row(Str(S_Bob), Num(9), Num(0), Num(0), Num(1), Str(S_Mon), Num(1)),
      Row(Str(S_Bob), Num(9), Num(0), Num(1), Num(1), Str(S_Mon), Num(2)),
      Row(Str(S_Bob), Num(9), Num(1), Num(1), Num(1), Str(S_Tue), Num(1)),
      Row(Str(S_Bob), Num(9), Num(0), Num(0), Num(1), Str(S_Tue), NaN),
      Row(Str(S_alice), Num(9), Num(0), Num(1), Num(1), Str(S_Mon), Num(1)) }

OtherRows ==
    { Row(Str(S_Bob), Num(9), Num(1), Num(1), Num(1), Str(S_Mon), Num(3)),
      Row(Str(S_Bob), Num(9), Num(91), Num(0), Num(1), Str(S_Mon), Str(S_2)),
      Row(Str(S_Bob), Num(9), Num(0), Num(0), Num(1), Str(S_Mon), Str(S_x)),
      Row(Str(S_alice), Num(9), Num(1), Num(1), Num(1), Str(S_Mon), Num(2)),
      Row(Str(S_Bob), Num(10), Num(0), Num(1), Num(2), Str(S_Mon), Num(1)),
      Row(Str(S_Bob), Num(9), Num(0), Num(1), NaN, Str(S_Mon), Num(1)),
      Row(Str(S_Bob), Num(9), NaN, Num(1), Num(1), Str(S_Mon), Num(1)),
      Row(Str(S_alice), Num(9), Str(S_abc), NaN, Num(1), Str(S_Mon), Num(1)),
      Row(Str(S_Bob), Num(9), Str(S_abc), Num(0), Num(1), Str(S_Mon), Num(1)) }

AllRows == CleanRows \cup OtherRows

SeqsUpTo(S, n) == UNION { [1..k -> S] : k \in 0..n }

Sheet(readable, columns, rows) ==
    [readable |-> readable, columns |-> columns, rows |-> rows]

Sheets ==
    { Sheet(FALSE, {}, <<>>) }
    \cup { Sheet(TRUE, cs, rs) : cs \in (SUBSET AllCols) \ {AllCols}, rs \in SeqsUpTo(AllRows, 1) }
    \cup { Sheet(TRUE, AllCols, rs) : rs \in SeqsUpTo(AllRows, MaxRows) }
    \cup { Sheet(TRUE, AllCols, rs) : rs \in SeqsUpTo(CleanRows, MaxCleanRows) }

(***************************************************************************)
(* calculate_total_distance_for_day                                        *)
(***************************************************************************)
Abs(n) == IF n < 0 THEN -n ELSE n

Min(a, b) == IF a < b THEN a ELSE b

\* geopy rejects a point whose latitude lies outside [-90, 90] (ValueError).
GeodesicRaises(p, q) == p[1] < -90 \/ p[1] > 90 \/ q[1] < -90 \/ q[1] > 90

\* Stand-in for geopy's geodesic(p, q), in metres: symmetric, zero between equal
\* points, about 110.574 km per degree of latitude, 111.319 km per degree of
\* longitude and 156.899 km along the diagonal of a one-degree cell.
Geodesic(p, q) ==
    LET dlat == Abs(p[1] - q[1])
        dlon == Abs(p[2] - q[2])
    IN  110574 * dlat + 111319 * dlon - 64994 * Min(dlat, dlon)

\* round(km, 2) of a non-negative distance held in metres: the nearest multiple
\* of 10 m, a tie going to the even hundredth.
Round2(m) ==
    LET q == m \div 10
        r == m % 10
    IN  IF r < 5 THEN 10 * q
        ELSE IF r > 5 THEN 10 * (q + 1)
        ELSE IF q % 2 = 0 THEN 10 * q ELSE 10 * (q + 1)

\* One pass of the loop body: the pair (c[i], c[i+1]) adds its distance, or
\* nothing when geodesic raises.
PairKm(c, i) == IF GeodesicRaises(c[i], c[i + 1]) THEN 0 ELSE Geodesic(c[i], c[i + 1])

\* total_km after the first n passes of the loop.
RECURSIVE SumPairs(_, _)
SumPairs(c, n) == IF n = 0 THEN 0 ELSE SumPairs(c, n - 1) + PairKm(c, n)

\* Variant: one try around the whole loop, so that a failing pair voids the day.
TotalVoidedByFailure(c) ==
    IF Len(c) <= 1 THEN 0
    ELSE IF \E i \in 1..(Len(c) - 1) : GeodesicRaises(c[i], c[i + 1]) THEN 0
    ELSE Round2(SumPairs(c, Len(c) - 1))

calculate_total_distance_for_day(c) ==
    IF Len(c) <= 1 THEN 0 ELSE Round2(SumPairs(c, Len(c) - 1))

(***************************************************************************)
(* calculate_monthly_distance: the steps between read_excel and return     *)
(***************************************************************************)
\* Variant: the last required column is not looked for.
FirstMissingButLast(columns) ==
    LET missing == { i \in 1..(Len(required_cols) - 1) : required_cols[i] \notin columns }
    IN  IF missing = {} THEN 0 ELSE CHOOSE i \in missing : \A j \in missing : i <= j

\* The first required column the sheet lacks (0 when none is missing).
FirstMissing(columns) ==
    LET missing == { i \in 1..Len(required_cols) : required_cols[i] \notin columns }
    IN  IF missing = {} THEN 0 ELSE CHOOSE i \in missing : \A j \in missing : i <= j

\* Variant: dropna(how="all"), which keeps a row that has one coordinate.
DropNaHowAll(rows) == SelectSeq(rows, LAMBDA r : ~(IsNa(r.lat) /\ IsNa(r.lon)))

\* df.dropna(subset=["Latitude", "Longitude"])
DropNa(rows) == SelectSeq(rows, LAMBDA r : ~IsNa(r.lat) /\ ~IsNa(r.lon))

\* Variant: rows whose VISIT_ORDER does not coerce are dropped.
CoerceDropsUnparsed(rows) ==
    SelectSeq([i \in 1..Len(rows) |-> [rows[i] EXCEPT !.vo = ToNumeric(@)]],
              LAMBDA r : ~IsNa(r.vo))

\* df["VISIT_ORDER"] = pd.to_numeric(df["VISIT_ORDER"], errors="coerce")
CoerceVisitOrder(rows) == [i \in 1..Len(rows) |-> [rows[i] EXCEPT !.vo = ToNumeric(@)]]

\* Order of two cells of one sort column, missing values last.
CellLess(a, b) ==
    CASE IsNa(a) -> FALSE
      [] ~IsNa(a) /\ IsNa(b) -> TRUE
      [] a.t = "num" /\ b.t = "num" -> a.v < b.v
      [] a.t = "str" /\ b.t = "str" -> SeqLess(a.v, b.v)

\* Variant: VISIT_ORDER is left out of the sort columns.
SortKeysWithoutVisitOrder(r) == <<r.name, r.erp, r.week, r.day>>

\* by=["SO NAME", "SO_ERP_ID", "WEEK", "DAY", "VISIT_ORDER"]
SortKeys(r) == <<r.name, r.erp, r.week, r.day, r.vo>>

TupleLess(a, b) ==
    \E i \in 1..Len(a) : CellLess(a[i], b[i]) /\ \A j \in 1..(i - 1) : a[j] = b[j]

RowLess(a, b) == TupleLess(SortKeys(a), SortKeys(b))

\* A stable sort: each row goes in front of the first row that is greater.
RECURSIVE InsertRow(_, _)
InsertRow(r, s) ==
    IF s = <<>> THEN <<r>>
    ELSE IF RowLess(r, Head(s)) THEN <<r>> \o s
    ELSE <<Head(s)>> \o InsertRow(r, Tail(s))

RECURSIVE SortValues(_)
SortValues(rows) ==
    IF rows = <<>> THEN <<>>
    ELSE InsertRow(rows[Len(rows)], SortValues(SubSeq(rows, 1, Len(rows) - 1)))

\* The group key of a row: ["SO NAME", "SO_ERP_ID", "WEEK", "DAY"].
GroupKey(r) == <<r.name, r.erp, r.week, r.day>>

HasNaKey(r) == \E i \in 1..4 : IsNa(GroupKey(r)[i])

\* The distinct keys of the rows, in the order of their first appearance.
RECURSIVE FirstSeen(_, _)
FirstSeen(rows, seen) ==
    IF rows = <<>> THEN seen
    ELSE IF \E i \in 1..Len(seen) : seen[i] = GroupKey(Head(rows))
         THEN FirstSeen(Tail(rows), seen)
         ELSE FirstSeen(Tail(rows), Append(seen, GroupKey(Head(rows))))

\* df.groupby([...], sort=False): rows with a missing key belong to no group
\* (dropna=True is the default); groups come in order of first appearance.
GroupBy(rows) ==
    LET kept == SelectSeq(rows, LAMBDA r : ~HasNaKey(r))
        keys == FirstSeen(kept, <<>>)
    IN  [i \in 1..Len(keys) |->
            [key |-> keys[i],
             rows |-> SelectSeq(kept, LAMBDA r : GroupKey(r) = keys[i])]]

\* group[...].astype(float) raises ValueError on a cell that is no number.
AsTypeRaises(g) ==
    \E i \in 1..Len(g.rows) : ~CanFloat(g.rows[i].lat) \/ ~CanFloat(g.rows[i].lon)

\* coords = list(zip(Latitude, Longitude))
Coords(g) == [i \in 1..Len(g.rows) |-> <<ToFloat(g.rows[i].lat), ToFloat(g.rows[i].lon)>>]

\* Variant: "=" in place of "+=", the last day replacing the running total.
AccumulateOverwrite(res, so, km) ==
    IF \E i \in 1..Len(res) : res[i].so = so
    THEN [i \in 1..Len(res) |-> IF res[i].so = so THEN [res[i] EXCEPT !.dist = km] ELSE res[i]]
    ELSE Append(res, [so |-> so, dist |-> km])

\* results[(so_name, so_erp)] += total_km, on a dict that keeps insertion order.
Accumulate(res, so, km) ==
    IF \E i \in 1..Len(res) : res[i].so = so
    THEN [i \in 1..Len(res) |-> IF res[i].so = so THEN [res[i] EXCEPT !.dist = @ + km] ELSE res[i]]
    ELSE Append(res, [so |-> so, dist |-> km])

\* The entry appended to detailed.
DayResult(key, km, n) ==
    ("SO NAME" :> key[1]) @@ ("SO_ERP_ID" :> key[2]) @@ ("WEEK" :> PyInt(key[3]))
    @@ ("DAY" :> PyStr(key[4])) @@ ("DISTANCE_KM" :> km) @@ ("OUTLETS_VISITED" :> n)

\* One entry of total_summary.
SummaryEntry(e) ==
    ("SO NAME" :> e.so[1]) @@ ("SO_ERP_ID" :> e.so[2])
    @@ ("TOTAL_MONTHLY_DISTANCE_KM" :> Round2(e.dist))

\* Variant: the sort key without .lower().
SummaryKeyCased(x) == <<PyStr(x["SO NAME"]), PyStr(x["SO_ERP_ID"])>>

\* key=lambda x: (str(x["SO NAME"]).lower(), str(x["SO_ERP_ID"]))
SummaryKey(x) == <<Lower(PyStr(x["SO NAME"])), PyStr(x["SO_ERP_ID"])>>

SummaryLess(a, b) ==
    LET ka == SummaryKey(a)
        kb == SummaryKey(b)
    IN  SeqLess(ka[1], kb[1]) \/ (ka[1] = kb[1] /\ SeqLess(ka[2], kb[2]))

RECURSIVE InsertEntry(_, _)
InsertEntry(x, s) ==
    IF s = <<>> THEN <<x>>
    ELSE IF SummaryLess(x, Head(s)) THEN <<x>> \o s
    ELSE <<Head(s)>> \o InsertEntry(x, Tail(s))

\* sorted(total_summary, key=...), which is stable.
RECURSIVE Sorted(_)
Sorted(s) ==
    IF s = <<>> THEN <<>>
    ELSE InsertEntry(s[Len(s)], Sorted(SubSeq(s, 1, Len(s) - 1)))

TotalSummary(res) == Sorted([i \in 1..Len(res) |-> SummaryEntry(res[i])])

\* The values calculate_monthly_distance returns.
ReadError == [status |-> "error", message |-> <<"Failed to read Excel file: ", "e">>]

MissingColumn(col) == [status |-> "error", message |-> <<"Missing column: ", col>>]

Success(summary, breakdown) ==
    [status |-> "success", summary |-> summary, daily_breakdown |-> breakdown]

NoResult == [status |-> "none"]

\* One pass of the loop over day_groups, on the running results and detailed.
LoopPass(res, det, g) ==
    LET c  == Coords(g)
        km == calculate_total_distance_for_day(c)
    IN  [coords |-> c, total_km |-> km,
         results |-> Accumulate(res, <<g.key[1], g.key[2]>>, km),
         detailed |-> Append(det, DayResult(g.key, km, Len(c)))]

(***************************************************************************)
(* calculate_monthly_distance as a state machine: one call on one file.    *)
(* pc is the position in the function; "returned" and "raised" end it.     *)
(***************************************************************************)
\* No request is in flight while the function is studied alone.
HttpIdle == <<>>

NoDisk == <<>>

Init ==
    /\ file \in Sheets
    /\ pc = "read"
    /\ df = <<>>
    /\ groups = <<>>
    /\ coords = <<>>
    /\ total_km = 0
    /\ results = <<>>
    /\ detailed = <<>>
    /\ ret = NoResult
    /\ disk = NoDisk
    /\ req = HttpIdle

\* df = pd.read_excel(file_path), or the error result when it raises.
ReadExcel ==
    /\ pc = "read"
    /\ IF file.readable
       THEN /\ df' = file.rows
            /\ pc' = "validate"
            /\ ret' = ret
       ELSE /\ df' = df
            /\ pc' = "returned"
            /\ ret' = ReadError
    /\ UNCHANGED <<file, groups, coords, total_km, results, detailed, disk, req>>

\* for col in required_cols: if col not in df.columns: return error
ValidateColumns ==
    /\ pc = "validate"
    /\ LET m == FirstMissing(file.columns)
       IN  IF m # 0
           THEN /\ pc' = "returned"
                /\ ret' = MissingColumn(required_cols[m])
           ELSE /\ pc' = "dropna"
                /\ ret' = ret
    /\ UNCHANGED <<file, df, groups, coords, total_km, results, detailed, disk, req>>

DropRows ==
    /\ pc = "dropna"
    /\ df' = DropNa(df)
    /\ pc' = "sort"
    /\ UNCHANGED <<file, groups, coords, total_km, results, detailed, ret, disk, req>>

\* to_numeric on VISIT_ORDER, then sort_values
CoerceAndSort ==
    /\ pc = "sort"
    /\ df' = SortValues(CoerceVisitOrder(df))
    /\ pc' = "groupby"
    /\ UNCHANGED <<file, groups, coords, total_km, results, detailed, ret, disk, req>>

MakeGroups ==
    /\ pc = "groupby"
    /\ groups' = GroupBy(df)
    /\ pc' = "loop"
    /\ UNCHANGED <<file, df, coords, total_km, results, detailed, ret, disk, req>>

\* One iteration of "for (so_name, so_erp, week, day), group in day_groups".
LoopBody ==
    /\ pc = "loop"
    /\ groups # <<>>
    /\ IF AsTypeRaises(Head(groups))
       THEN /\ pc' = "raised"
            /\ UNCHANGED <<groups, coords, total_km, results, detailed>>
       ELSE LET st == LoopPass(results, detailed, Head(groups))
            IN  /\ pc' = "loop"
                /\ groups' = Tail(groups)
                /\ coords' = st.coords
                /\ total_km' = st.total_km
                /\ results' = st.results
                /\ detailed' = st.detailed
    /\ UNCHANGED <<file, df, ret, disk, req>>

\* total_summary, its sort, and the return of the success result.
Summarise ==
    /\ pc = "loop"
    /\ groups = <<>>
    /\ ret' = Success(TotalSummary(results), detailed)
    /\ pc' = "returned"
    /\ UNCHANGED <<file, df, groups, coords, total_km, results, detailed, disk, req>>

Next ==
    \/ ReadExcel
    \/ ValidateColumns
    \/ DropRows
    \/ CoerceAndSort
    \/ MakeGroups
    \/ LoopBody
    \/ Summarise

Spec == Init /\ [][Next]_vars

(***************************************************************************)
(* The whole call as a function of the file it reads: what the caller of   *)
(* calculate_monthly_distance gets, a returned value or a raised exception.*)
(***************************************************************************)
Returned(value) == [raised |-> FALSE, value |-> value]

Raised == [raised |-> TRUE, value |-> NoResult]

RECURSIVE RunLoop(_, _, _)
RunLoop(gs, res, det) ==
    IF gs = <<>> THEN Returned(Success(TotalSummary(res), det))
    ELSE IF AsTypeRaises(Head(gs)) THEN Raised
    ELSE LET st == LoopPass(res, det, Head(gs))
         IN  RunLoop(Tail(gs), st.results, st.detailed)

Calc(sheet) ==
    IF ~sheet.readable THEN Returned(ReadError)
    ELSE IF FirstMissing(sheet.columns) # 0
    THEN Returned(MissingColumn(required_cols[FirstMissing(sheet.columns)]))
    ELSE RunLoop(GroupBy(SortValues(CoerceVisitOrder(DropNa(sheet.rows)))), <<>>, <<>>)

(***************************************************************************)
(* POST /monthly-distance/ : two requests served by worker processes that  *)
(* share the uploads directory.  Inside one event loop the handler has no  *)
(* await and runs to its end; between processes the save of one request    *)
(* and the read of another interleave.                                     *)
(***************************************************************************)
Requests == {1, 2}

FileNames == {"jan.xlsx", "feb.xlsx"}

\* What the two clients upload.
Uploads ==
    { Sheet(FALSE, {}, <<>>),
      Sheet(TRUE, AllCols \ {"WEEK"}, <<>>),
      Sheet(TRUE, AllCols,
            << Row(Str(S_Bob), Num(9), Num(0), Num(0), Num(1), Str(S_Mon), Num(1)),
               Row(Str(S_Bob), Num(9), Num(0), Num(1), Num(1), Str(S_Mon), Num(2)) >>),
      Sheet(TRUE, AllCols,
            << Row(Str(S_alice), Num(9), Num(1), Num(1), Num(1), Str(S_Tue), Num(1)) >>),
      Sheet(TRUE, AllCols,
            << Row(Str(S_Bob), Num(9), Str(S_abc), Num(0), Num(1), Str(S_Mon), Num(1)) >>) }

\* os.path.join(UPLOAD_DIR, data_file.filename): the client's name picks the path.
FilePath(r) == req[r].filename

\* The JSONResponse the handler builds from the outcome of the call.
Respond(out) ==
    IF out.raised
    THEN [code |-> 500, body |-> [status |-> "error", message |-> <<"str(e)">>]]
    ELSE IF out.value.status = "error"
    THEN [code |-> 400, body |-> out.value]
    ELSE [code |-> 200, body |-> out.value]

NoResponse == [code |-> 0, body |-> NoResult]

InitHttp ==
    /\ file = Sheet(FALSE, {}, <<>>)
    /\ pc = "idle"
    /\ df = <<>>
    /\ groups = <<>>
    /\ coords = <<>>
    /\ total_km = 0
    /\ results = <<>>
    /\ detailed = <<>>
    /\ ret = NoResult
    /\ disk = [f \in FileNames |-> Sheet(FALSE, {}, <<>>)]
    /\ req \in [Requests -> [pc : {"save"}, filename : FileNames, upload : Uploads,
                             response : {NoResponse}]]

\* with open(file_path, "wb") as f: shutil.copyfileobj(data_file.file, f)
SaveUpload(r) ==
    /\ req[r].pc = "save"
    /\ disk' = [disk EXCEPT ![FilePath(r)] = req[r].upload]
    /\ req' = [req EXCEPT ![r].pc = "process"]
    /\ UNCHANGED aggVars

\* result = calculate_monthly_distance(file_path), and the response.
Process(r) ==
    /\ req[r].pc = "process"
    /\ req' = [req EXCEPT ![r].pc = "done",
                          ![r].response = Respond(Calc(disk[FilePath(r)]))]
    /\ UNCHANGED <<disk>>
    /\ UNCHANGED aggVars

NextHttp == \E r \in Requests : SaveUpload(r) \/ Process(r)

SpecHttp == InitHttp /\ [][NextHttp]_vars

(***************************************************************************)
(* Properties.                                                             *)
(***************************************************************************)
Finished == pc = "returned"

Succeeded == pc = "returned" /\ ret.status = "success"

\* The seven column headers of the input format.
SevenColumns ==
    {"SO NAME", "SO_ERP_ID", "Latitude", "Longitude", "WEEK", "DAY", "VISIT_ORDER"}

AbsentColumns == SevenColumns \ file.columns

WellFormed == file.readable /\ AbsentColumns = {}

HasCoordinates(r) == r.lat.t # "nan" /\ r.lon.t # "nan"

\* The input rows (by position) that have both coordinates.
Located == { i \in 1..Len(file.rows) : HasCoordinates(file.rows[i]) }

\* The call agrees with its one-step form, which the endpoint model uses.
CalcAgrees ==
    /\ pc = "returned" => Calc(file) = Returned(ret)
    /\ pc = "raised" => Calc(file) = Raised

\* C1: calculate_monthly_distance never lets an exception cross its boundary:
\* whatever the file holds, the call ends by returning a result whose status is
\* "success" or "error"; no failure is a raised exception.
C1_NeverRaises ==
    /\ pc # "raised"
    /\ pc = "returned" => ret.status \in {"success", "error"}

\* C2: a readable sheet that lacks one of the seven required columns gets status
\* "error" with a message naming a column it lacks, and nothing else in the
\* result (no summary, no daily_breakdown); the call stops at the validation,
\* before any row is filtered, sorted or grouped.
C2_MissingColumnError ==
    (file.readable /\ AbsentColumns # {}) =>
        /\ pc \in {"read", "validate", "returned"}
        /\ pc # "read" => df = file.rows
        /\ groups = <<>> /\ results = <<>> /\ detailed = <<>>
        /\ pc = "returned" =>
              /\ ret.status = "error"
              /\ DOMAIN ret = {"status", "message"}
              /\ \E c \in AbsentColumns : ret.message = <<"Missing column: ", c>>

\* C2 witness: the error is returned for a sheet lacking exactly one column whose
\* only row has no latitude (a row the filtering would have removed).
C2_Witness ==
    /\ pc = "returned"
    /\ file.readable
    /\ Cardinality(AbsentColumns) = 1
    /\ Len(file.rows) = 1
    /\ file.rows[1].lat.t = "nan"
    /\ df = file.rows
    /\ ret.status = "error"

\* The sum of DISTANCE_KM over the first n entries of a breakdown that belong
\* to the salesperson of entry d.
RECURSIVE DaySum(_, _, _)
DaySum(bd, d, n) ==
    IF n = 0 THEN 0
    ELSE DaySum(bd, d, n - 1)
         + (IF bd[n]["SO NAME"] = d["SO NAME"] /\ bd[n]["SO_ERP_ID"] = d["SO_ERP_ID"]
            THEN bd[n]["DISTANCE_KM"] ELSE 0)

SummaryOf(d) ==
    { j \in 1..Len(ret.summary) :
        /\ ret.summary[j]["SO NAME"] = d["SO NAME"]
        /\ ret.summary[j]["SO_ERP_ID"] = d["SO_ERP_ID"] }

\* C3: in a success result every salesperson of the daily breakdown has exactly
\* one summary entry, and its total is the sum of that salesperson's daily
\* distances to within 0.01 km (10 m).
C3_MonthlyTotal ==
    Succeeded =>
        \A i \in 1..Len(ret.daily_breakdown) :
            LET d == ret.daily_breakdown[i]
            IN  /\ Cardinality(SummaryOf(d)) = 1
                /\ \A j \in SummaryOf(d) :
                      Abs(ret.summary[j]["TOTAL_MONTHLY_DISTANCE_KM"]
                          - DaySum(ret.daily_breakdown, d, Len(ret.daily_breakdown))) <= 10

\* C3 witness: one salesperson with two days of 111.32 km and 156.90 km and a
\* monthly total of 268.22 km.
C3_Witness ==
    /\ Succeeded
    /\ Len(ret.daily_breakdown) = 2
    /\ Len(ret.summary) = 1
    /\ ret.daily_breakdown[1]["DISTANCE_KM"] = 111320
    /\ ret.daily_breakdown[2]["DISTANCE_KM"] = 156900
    /\ ret.summary[1]["TOTAL_MONTHLY_DISTANCE_KM"] = 268220

\* The (SO NAME, SO_ERP_ID, WEEK, DAY) combinations among the located rows.
Combinations ==
    { <<file.rows[i].name, file.rows[i].erp, file.rows[i].week, file.rows[i].day>> :
        i \in Located }

\* C4: the daily breakdown has one entry per distinct (SO NAME, SO_ERP_ID, WEEK,
\* DAY) combination among the rows that have both coordinates, a combination
\* with a missing key field included.
C4_OneResultPerCombination ==
    Succeeded => Len(ret.daily_breakdown) = Cardinality(Combinations)

\* The sort key of a summary entry as the claim states it: the name without
\* case, then the id as text.
NameNoCase(e) == Lower(PyStr(e["SO NAME"]))

IdText(e) == PyStr(e["SO_ERP_ID"])

\* C5: the summary is sorted by SO NAME compared without case, ties broken by
\* SO_ERP_ID compared as text.
C5_SummarySorted ==
    Succeeded =>
        \A i, j \in 1..Len(ret.summary) :
            i < j =>
                \/ SeqLess(NameNoCase(ret.summary[i]), NameNoCase(ret.summary[j]))
                \/ /\ NameNoCase(ret.summary[i]) = NameNoCase(ret.summary[j])
                   /\ ~SeqLess(IdText(ret.summary[j]), IdText(ret.summary[i]))

\* C5 witness: the sheet starts with a row of Bob, and the summary is
\* [alice 9, Bob 10, Bob 9]: alice before Bob, "10" before "9".
C5_Witness ==
    /\ Succeeded
    /\ Len(file.rows) = 3
    /\ file.rows[1].name = Str(S_Bob)
    /\ Len(ret.summary) = 3
    /\ ret.summary[1]["SO NAME"] = Str(S_alice)
    /\ ret.summary[2]["SO NAME"] = Str(S_Bob) /\ ret.summary[2]["SO_ERP_ID"] = Num(10)
    /\ ret.summary[3]["SO NAME"] = Str(S_Bob) /\ ret.summary[3]["SO_ERP_ID"] = Num(9)

ValidPoint(p) == p[1] >= -90 /\ p[1] <= 90

\* The consecutive pairs of a path whose distance can be computed.
GoodPairs(c) == { i \in 1..(Len(c) - 1) : ValidPoint(c[i]) /\ ValidPoint(c[i + 1]) }

RECURSIVE PathLength(_, _)
PathLength(c, pairs) ==
    IF pairs = {} THEN 0
    ELSE LET i == CHOOSE k \in pairs : TRUE
         IN  Geodesic(c[i], c[i + 1]) + PathLength(c, pairs \ {i})

NumericCoordinates ==
    \A i \in 1..Len(file.rows) :
        file.rows[i].lat.t \in {"num", "nan"} /\ file.rows[i].lon.t \in {"num", "nan"}

\* C6: the day distance is the 2-decimal rounding of the sum over the consecutive
\* pairs whose geodesic does not fail, and 0.0 for fewer than two points; a
\* failing pair neither raises nor turns the result into an error.
C6_DayDistanceTolerant ==
    /\ (pc \in {"loop", "returned"} /\ detailed # <<>>) =>
          /\ total_km = Round2(PathLength(coords, GoodPairs(coords)))
          /\ Len(coords) <= 1 => total_km = 0
          /\ detailed[Len(detailed)]["DISTANCE_KM"] = total_km
    /\ (WellFormed /\ NumericCoordinates) =>
          /\ pc # "raised"
          /\ pc = "returned" => ret.status = "success"

\* C6 witness: a day of three points whose first pair fails (latitude 91) and
\* whose second pair is 111.32 km, in a call that returns success.
C6_Witness ==
    /\ Succeeded
    /\ Len(coords) = 3
    /\ ~ValidPoint(coords[1])
    /\ ValidPoint(coords[2]) /\ ValidPoint(coords[3])
    /\ total_km = 111320
    /\ ret.daily_breakdown[Len(ret.daily_breakdown)]["DISTANCE_KM"] = 111320

\* C7: a sheet with all seven columns in which every row lacks a coordinate
\* (or which has no row) returns success with an empty summary and an empty
\* daily breakdown, and the call does not raise.
C7_NoCoordinates ==
    (WellFormed /\ Located = {}) =>
        /\ pc # "raised"
        /\ pc = "returned" => ret = Success(<<>>, <<>>)

\* C7 witness: three rows, none with both coordinates, one of them with a
\* latitude that is no number; the call has returned.
C7_Witness ==
    /\ pc = "returned"
    /\ WellFormed
    /\ Len(file.rows) = 3
    /\ Located = {}
    /\ \E i \in 1..3 : file.rows[i].lat.t = "str"
    /\ \E i \in 1..3 : file.rows[i].lat.t = "nan"

\* The located input rows with the key of breakdown entry d.
RowsOf(d) ==
    { i \in Located :
        /\ file.rows[i].name = d["SO NAME"]
        /\ file.rows[i].erp = d["SO_ERP_ID"]
        /\ file.rows[i].week.t = "num" /\ file.rows[i].week.v = d["WEEK"]
        /\ file.rows[i].day.t = "str" /\ file.rows[i].day.v = d["DAY"] }

\* C8: OUTLETS_VISITED of every breakdown entry is the number of input rows with
\* its key and both coordinates, whatever their VISIT_ORDER holds.
C8_OutletsVisited ==
    Succeeded =>
        \A k \in 1..Len(ret.daily_breakdown) :
            ret.daily_breakdown[k]["OUTLETS_VISITED"]
                = Cardinality(RowsOf(ret.daily_breakdown[k]))

\* C8 witness: three rows of one day, one without latitude and one whose
\* VISIT_ORDER is no number; the day counts two outlets.
C8_Witness ==
    /\ Succeeded
    /\ Len(file.rows) = 3
    /\ \E i \in 1..3 : file.rows[i].lat.t = "nan"
    /\ \E i \in 1..3 : file.rows[i].vo = Str(S_x)
    /\ Len(ret.daily_breakdown) = 1
    /\ ret.daily_breakdown[1]["OUTLETS_VISITED"] = 2

\* The visit order a cell denotes, when it denotes a number.
IsOrderNumber(c) == c.t = "num" \/ (c.t = "str" /\ IsDigits(c.v))

OrderValue(c) == IF c.t = "num" THEN c.v ELSE ParseDigits(c.v)

DistinctOrders(I) ==
    /\ \A i \in I : IsOrderNumber(file.rows[i].vo)
    /\ \A i, j \in I :
          i # j => OrderValue(file.rows[i].vo) # OrderValue(file.rows[j].vo)

\* The points of the rows I, by ascending visit order (I has distinct orders).
PathByOrder(I) ==
    [k \in 1..Cardinality(I) |->
        LET i == CHOOSE x \in I :
                    Cardinality({ y \in I : OrderValue(file.rows[y].vo)
                                              < OrderValue(file.rows[x].vo) }) = k - 1
        IN  <<ToFloat(file.rows[i].lat), ToFloat(file.rows[i].lon)>>]

\* The order of two breakdown entries by (SO NAME, SO_ERP_ID, WEEK, DAY): names
\* and days by code point, ids and weeks as numbers.
KeyBefore(x, y) ==
    \/ SeqLess(x["SO NAME"].v, y["SO NAME"].v)
    \/ /\ x["SO NAME"] = y["SO NAME"]
       /\ \/ x["SO_ERP_ID"].v < y["SO_ERP_ID"].v
          \/ /\ x["SO_ERP_ID"] = y["SO_ERP_ID"]
             /\ \/ x["WEEK"] < y["WEEK"]
                \/ (x["WEEK"] = y["WEEK"] /\ SeqLess(x["DAY"], y["DAY"]))

\* C9: the distance of a day whose rows have distinct numeric visit orders is
\* the path distance along its rows by ascending VISIT_ORDER, wherever the rows
\* stand in the file, and the breakdown entries come in the sorted order of
\* their keys.
C9_VisitOrderPath ==
    Succeeded =>
        /\ \A k \in 1..Len(ret.daily_breakdown) :
              LET d == ret.daily_breakdown[k]
                  I == RowsOf(d)
              IN  DistinctOrders(I) =>
                     d["DISTANCE_KM"]
                        = Round2(PathLength(PathByOrder(I), GoodPairs(PathByOrder(I))))
        /\ \A a, b \in 1..Len(ret.daily_breakdown) :
              a < b => KeyBefore(ret.daily_breakdown[a], ret.daily_breakdown[b])

\* C9 witness: outlets C, A, B stand in the file with visit orders 3, 1, 2; the
\* one day result counts 3 outlets and 221.89 km = geodesic(A,B) + geodesic(B,C).
C9_Witness ==
    /\ Succeeded
    /\ Len(file.rows) = 3
    /\ file.rows[1].vo = Num(3) /\ file.rows[2].vo = Num(1) /\ file.rows[3].vo = Num(2)
    /\ Len(ret.daily_breakdown) = 1
    /\ ret.daily_breakdown[1]["OUTLETS_VISITED"] = 3
    /\ ret.daily_breakdown[1]["DISTANCE_KM"] = 221890
    /\ Geodesic(<<0, 0>>, <<0, 1>>) + Geodesic(<<0, 1>>, <<1, 1>>) = 221893

\* C10: whatever the interleaving of two requests, each response is the one the
\* request would get alone, computed from the file it uploaded; the code is 200
\* exactly for status "success".
C10_RequestsIsolated ==
    \A r \in Requests :
        req[r].pc = "done" =>
            /\ req[r].response = Respond(Calc(req[r].upload))
            /\ req[r].response.code = 200 <=> req[r].response.body.status = "success"

====
